---- MODULE Spec2Model ----
(***************************************************************************)
(* Three specifications: Spec, the batch task runner of                    *)
(* Skills/schedule.py; SessSpec, the SessionManager of webAgent/chat.py;   *)
(* RoleSpec, identify_role of Skills/tasks/prompt_generator.py.            *)
(*                                                                         *)
(* Model of the batch task runner of Skills/schedule.py (TaskScheduler):   *)
(* discovery of the task files, sequential execution of each file in a     *)
(* child process, collection of the newly generated .md files into the     *)
(* dated result folder, and the final statistics.                          *)
(*                                                                         *)
(* The .md files are those of one stem r: a file name is the sequence of   *)
(* the time stamps that follow the stem, <<>> is "r.md", <<t>> is          *)
(* "r_t.md", and Append(n, t) is the name f"{stem}_{timestamp}.md" built   *)
(* from the stem of n and the time of day t. A file a task writes under    *)
(* the literal name "r_t.md" so has the name the collision rule builds.    *)
(* File contents are tags: Absent, Old (on disk before the run) and        *)
(* Fresh (written by a task during the run).                               *)
(* The task files other than __init__.py are numbered 1, 2, ... in the     *)
(* order in which glob lists them.                                         *)
(***************************************************************************)
EXTENDS Naturals, Integers, Sequences, FiniteSets, TLC

\* ---- bounds of the model ------------------------------------------------
MaxUnits == 2      \* task files that may sit in tasks/ besides __init__.py
NumTimes == 1      \* distinct time-of-day stamps (HHMMSS values)
NumDates == 2      \* distinct calendar dates

\* ---- names, contents ----------------------------------------------------
InitPy == 0                       \* the file __init__.py
Units  == 1..MaxUnits             \* the other .py files
Times  == 1..NumTimes
Dates  == 1..NumDates

Absent == 0
Old    == 1
Fresh  == 2

\* names a task can write: "r.md" and "r_t.md"
WriteNames == {<<>>} \cup {<<t>> : t \in Times}
\* names that can appear in a result folder: a written name, possibly suffixed
AllNames == WriteNames \cup {Append(n, t) : n \in WriteNames, t \in Times}

VARIABLES
  tasksDirExists,     \* self.tasks_dir.exists()
  srcPy,              \* the .py files of tasks/ (InitPy is __init__.py)
  srcMd,              \* the .md files of tasks/: name -> content tag
  resultDirExists,    \* the folder result/ exists
  dateDirs,           \* the dated folders that exist under result/
  dest,               \* the .md files of each dated folder: date -> name -> tag
  current_date,       \* self.current_date
  original_md_files,  \* self.original_md_files
  task_files,         \* the list returned by get_task_files
  idx,                \* position of the for loop of run (1-based)
  success_count,
  fail_count,
  cwd,                \* working directory of the scheduler process
  original_dir,       \* execute_task: the local original_dir ("none": no call pending)
  alive,              \* task files whose child process is alive
  md_files,           \* new .md files move_md_files still has to move
  result_folder,      \* the folder create_result_folder returned (0: none)
  summary,            \* the statistics printed at the end of run
  log,                \* kinds of messages printed so far
  pc,                 \* position of run
  result,             \* execute_task: what subprocess.run yielded ("none": no call pending)
  line,               \* execute_task: the result line it printed ("none": no call pending)
  attempts,           \* history: number of subprocess.run calls per file
  relocated,          \* history: the moves done, <<source name, stored name>>
  scen                \* history: how far the run follows the scenario of unit a and unit b

\* webAgent/chat.py, SessionManager
VARIABLES
  active_sessions,    \* self.active_sessions: session id -> list of messages
  client_session_map, \* self.client_session_map: client identifier -> session id
  session_dir,        \* the files <session id>.json of self.session_dir
  ret                 \* the call that has just returned, and its value

\* Skills/tasks/prompt_generator.py, SystemPromptGenerator.identify_role
VARIABLES
  content,            \* argument content
  metadata,           \* argument metadata
  role                \* the role name returned ("pending": not called yet)

vars == <<tasksDirExists, srcPy, srcMd, resultDirExists, dateDirs, dest,
          current_date, original_md_files, task_files, idx, success_count,
          fail_count, cwd, original_dir, alive, md_files, result_folder, summary,
          log, pc, result, line, attempts, relocated, scen,
          active_sessions, client_session_map, session_dir, ret,
          content, metadata, role>>

schedVars == <<tasksDirExists, srcPy, srcMd, resultDirExists, dateDirs, dest,
               current_date, original_md_files, task_files, idx, success_count,
               fail_count, cwd, original_dir, alive, md_files, result_folder,
               summary, log, pc, result, line, attempts, relocated, scen>>
sessVars == <<active_sessions, client_session_map, session_dir, ret>>
roleVars == <<content, metadata, role>>

fsVars   == <<tasksDirExists, srcPy, srcMd, resultDirExists, dateDirs, dest>>
histVars == <<attempts, relocated>>

\* all orders in which a set can be listed (iteration order of list(set))
Orderings(S) ==
  {f \in [1..Cardinality(S) -> S] : \A i, j \in 1..Cardinality(S) : i /= j => f[i] /= f[j]}

\* glob("*.md") of a folder
GlobMd(folder) == {n \in DOMAIN folder : folder[n] /= Absent}

NoSummary == [reported |-> FALSE, total |-> 0, succeeded |-> 0, failed |-> 0,
              destination |-> 0]

EmptyFolder == [n \in AllNames |-> Absent]

\* no SessionManager has been constructed
NoRet == [op |-> "none", client |-> <<>>, session_id |-> 0, id |-> 0,
          out |-> "none", llm |-> FALSE]
NoSessionManager ==
  /\ active_sessions = [x \in {} |-> <<>>]
  /\ client_session_map = [x \in {} |-> 0]
  /\ session_dir = [x \in {} |-> <<>>]
  /\ ret = NoRet

\* no SystemPromptGenerator is in use
NoPromptGenerator ==
  /\ content = <<>>
  /\ metadata = [x \in {} |-> <<>>]
  /\ role = [name |-> "pending", description |-> ""]

\* ---- TaskScheduler.__init__ and the file system it starts on -------------
Init ==
  /\ NoSessionManager
  /\ NoPromptGenerator
  /\ tasksDirExists \in BOOLEAN
  /\ \E k \in 0..MaxUnits, i \in SUBSET {InitPy} : srcPy = i \cup 1..k
  /\ srcMd \in [AllNames -> {Absent, Old}]
  /\ \A n \in AllNames \ WriteNames : srcMd[n] = Absent
  /\ ~tasksDirExists => (srcPy = {} /\ \A n \in AllNames : srcMd[n] = Absent)
  /\ current_date \in Dates
  /\ resultDirExists \in BOOLEAN
  /\ dateDirs \in {{}, {current_date}}
  /\ dateDirs /= {} => resultDirExists
  /\ \E f \in [AllNames -> {Absent, Old}] :
        /\ \A n \in AllNames \ WriteNames : f[n] = Absent
        /\ (current_date \notin dateDirs) => f = EmptyFolder
        /\ dest = [d \in Dates |-> IF d = current_date THEN f ELSE EmptyFolder]
  /\ original_md_files = {}
  /\ task_files = <<>>
  /\ idx = 0
  /\ success_count = 0
  /\ fail_count = 0
  /\ cwd = "orig"
  /\ original_dir = "none"
  /\ alive = {}
  /\ md_files = <<>>
  /\ result_folder = 0
  /\ summary = NoSummary
  /\ log = {}
  /\ pc = "Idle"
  /\ result = "none"
  /\ line = "none"
  /\ attempts = [u \in Units |-> 0]
  /\ relocated = {}
  /\ scen = "open"

\* ---- get_task_files ------------------------------------------------------
\* variant: the existence test is dropped, nothing tells that tasks/ is missing
get_task_files_missing_silent ==
  /\ ~tasksDirExists
  /\ task_files' = <<>>
  /\ log' = log \cup {"found_tasks"}
  /\ UNCHANGED original_md_files

\* lines 47-49: tasks/ does not exist, an error line is printed, [] returned
get_task_files_missing ==
  /\ ~tasksDirExists
  /\ task_files' = <<>>
  /\ log' = log \cup {"tasks_dir_missing"}
  /\ UNCHANGED original_md_files

\* variant: __init__.py is not filtered out of the list
get_task_files_present_unfiltered ==
  /\ tasksDirExists
  /\ original_md_files' = GlobMd(srcMd)
  /\ task_files' \in Orderings(srcPy)
  /\ log' = log \cup {"found_tasks"}

\* lines 51-66: the snapshot of the .md files and the list of task files
get_task_files_present ==
  /\ tasksDirExists
  /\ original_md_files' = GlobMd(srcMd)
  /\ task_files' = [i \in 1..Cardinality(srcPy \ {InitPy}) |-> i]
  /\ log' = log \cup {"found_tasks"}

\* run, line 193
get_task_files ==
  /\ pc = "Idle"
  /\ (get_task_files_missing \/ get_task_files_present)
  /\ pc' = "Discovered"
  /\ UNCHANGED <<sessVars, roleVars, original_dir, line, scen, fsVars, current_date, idx, success_count, fail_count, cwd,
                 alive, md_files, result_folder, summary, result, histVars>>

\* variant: the result folder is created before the list is tested
ReturnNoTasksAfterFolder ==
  /\ pc = "Discovered"
  /\ task_files = <<>>
  /\ log' = log \cup {"no_tasks_exit"}
  /\ pc' = "Done"
  /\ resultDirExists' = TRUE
  /\ dateDirs' = dateDirs \cup {current_date}
  /\ UNCHANGED <<sessVars, roleVars, original_dir, line, scen, tasksDirExists, srcPy, srcMd, dest, current_date,
                 original_md_files, task_files, idx, success_count,
                 fail_count, cwd, alive, md_files, result_folder, summary,
                 result, histVars>>

\* run, lines 194-196: no task file, return without statistics
ReturnNoTasks ==
  /\ pc = "Discovered"
  /\ task_files = <<>>
  /\ log' = log \cup {"no_tasks_exit"}
  /\ pc' = "Done"
  /\ UNCHANGED <<sessVars, roleVars, original_dir, line, scen, fsVars, current_date, original_md_files, task_files, idx,
                 success_count, fail_count, cwd, alive, md_files,
                 result_folder, summary, result, histVars>>

\* ---- create_result_folder ------------------------------------------------
\* variant: the folder is named by a date read anew, not by self.current_date
create_result_folder_other_date ==
  /\ pc = "Discovered"
  /\ task_files /= <<>>
  /\ resultDirExists' = TRUE
  /\ \E d \in Dates : /\ dateDirs' = dateDirs \cup {d}
                      /\ result_folder' = d
  /\ idx' = 1
  /\ success_count' = 0
  /\ fail_count' = 0
  /\ pc' = "Executing"
  /\ UNCHANGED <<sessVars, roleVars, original_dir, line, scen, tasksDirExists, srcPy, srcMd, dest, current_date,
                 original_md_files, task_files, cwd, alive, md_files, summary,
                 log, result, histVars>>

\* run, lines 199-203: the folders are made, the counters and the loop start
create_result_folder ==
  /\ pc = "Discovered"
  /\ task_files /= <<>>
  /\ resultDirExists' = TRUE
  /\ dateDirs' = dateDirs \cup {current_date}
  /\ result_folder' = current_date
  /\ idx' = 1
  /\ success_count' = 0
  /\ fail_count' = 0
  /\ pc' = "Executing"
  /\ UNCHANGED <<sessVars, roleVars, original_dir, line, scen, tasksDirExists, srcPy, srcMd, dest, current_date,
                 original_md_files, task_files, cwd, alive, md_files, summary,
                 log, result, histVars>>

\* ---- execute_task ---------------------------------------------------------
\* What subprocess.run yields for a child that ends by itself: its return
\* code, unless its captured output is not valid UTF-8 (encoding='utf-8',
\* line 109), in which case decoding it raises.
OutcomeOf(rc, decodable) ==
  IF decodable
    THEN (IF rc = 0 THEN "exit0" ELSE "exit_nonzero")
    ELSE (IF rc = 0 THEN "exit0_bad_output" ELSE "exit_nonzero_bad_output")

\* The boolean execute_task returns: True only on the returncode == 0 branch;
\* TimeoutExpired and every other exception (a decoding error of the captured
\* output included) take a handler that returns False.
execute_task_returns(o) == o = "exit0"

\* variant: the handler of every exception comes first and takes the timeout
PrintedLineOneHandler(o) ==
  CASE o = "exit0" -> "success"
    [] o = "exit_nonzero" -> "failed"
    [] OTHER -> "exception"

\* The result line execute_task prints (lines 117, 122, 128, 132): one for
\* returncode 0, one for another return code, one for TimeoutExpired and one
\* for every other exception.
PrintedLine(o) ==
  CASE o = "exit0" -> "success"
    [] o = "exit_nonzero" -> "failed"
    [] o = "timeout" -> "timeout"
    [] OTHER -> "exception"

\* The scenario "unit a exits 0 and writes r.md, unit b exits 1, r.md is not
\* in the snapshot, no other new .md file": the state of scen after a task
\* file whose child yielded o has been counted.
ScenAfter(sc, o) ==
  IF o \in {"exit0", "exit0_bad_output"}
         /\ srcMd[<<>>] = Fresh /\ <<>> \notin original_md_files
    THEN (CASE sc = "open" -> "a" [] sc = "b" -> "ab" [] OTHER -> "off")
    ELSE IF o \in {"exit_nonzero", "exit_nonzero_bad_output"}
      THEN (CASE sc = "open" -> "b" [] sc = "a" -> "ab" [] OTHER -> "off")
      ELSE "off"

\* execute_task up to the point where the child runs: chdir, Popen succeeded
Launch ==
  /\ pc = "Executing"
  /\ idx <= Len(task_files)
  /\ original_dir' = cwd
  /\ cwd' = "tasks"
  /\ alive' = alive \cup {task_files[idx]}
  /\ attempts' = [attempts EXCEPT ![task_files[idx]] = @ + 1]
  /\ pc' = "Running"
  /\ UNCHANGED <<sessVars, roleVars, line, scen, fsVars, current_date, original_md_files, task_files, idx,
                 success_count, fail_count, md_files, result_folder, summary,
                 log, result, relocated>>

\* variant: the launch exception is not caught and leaves run
LaunchFaultAborts ==
  /\ pc = "Executing"
  /\ idx <= Len(task_files)
  /\ attempts' = [attempts EXCEPT ![task_files[idx]] = @ + 1]
  /\ result' = "launch_error"
  /\ line' = "none"
  /\ log' = log \cup {"exception"}
  /\ pc' = "Raised"
  /\ UNCHANGED <<sessVars, roleVars, original_dir, scen, fsVars, current_date, original_md_files, task_files, idx,
                 success_count, fail_count, cwd, alive, md_files,
                 result_folder, summary, relocated>>

\* subprocess.run raises before a child exists (handler of lines 131-135)
LaunchFault ==
  /\ pc = "Executing"
  /\ idx <= Len(task_files)
  /\ attempts' = [attempts EXCEPT ![task_files[idx]] = @ + 1]
  /\ cwd' = cwd
  /\ result' = "launch_error"
  /\ line' = PrintedLine("launch_error")
  /\ pc' = "Returning"
  /\ UNCHANGED <<sessVars, roleVars, original_dir, scen, fsVars, current_date, original_md_files, task_files, idx,
                 success_count, fail_count, alive, md_files, result_folder,
                 summary, log, relocated>>

\* the running child writes an .md file into its working directory, tasks/
ChildWrite(n) ==
  /\ pc = "Running"
  /\ srcMd[n] /= Fresh
  /\ srcMd' = [srcMd EXCEPT ![n] = Fresh]
  /\ scen' = IF n = <<>> \/ n \in original_md_files THEN scen ELSE "off"
  /\ UNCHANGED <<sessVars, roleVars, original_dir, line, tasksDirExists, srcPy, resultDirExists, dateDirs, dest,
                 current_date, original_md_files, task_files, idx,
                 success_count, fail_count, cwd, alive, md_files,
                 result_folder, summary, log, pc, result, histVars>>

\* the running child writes a further task file into tasks/; it gets the
\* next number
ChildWritePy ==
  /\ pc = "Running"
  /\ Cardinality(srcPy \ {InitPy}) < MaxUnits
  /\ srcPy' = srcPy \cup {Cardinality(srcPy \ {InitPy}) + 1}
  /\ UNCHANGED <<sessVars, roleVars, original_dir, line, scen, tasksDirExists, srcMd, resultDirExists, dateDirs,
                 dest, current_date, original_md_files, task_files, idx,
                 success_count, fail_count, cwd, alive, md_files,
                 result_folder, summary, log, pc, result, histVars>>

\* variant: the working directory is not changed back when the child has ended
ChildExitNoRestore(rc, decodable) ==
  /\ pc = "Running"
  /\ alive' = alive \ {task_files[idx]}
  /\ cwd' = cwd
  /\ original_dir' = "none"
  /\ result' = OutcomeOf(rc, decodable)
  /\ line' = PrintedLine(OutcomeOf(rc, decodable))
  /\ pc' = "Returning"
  /\ UNCHANGED <<sessVars, roleVars, scen, fsVars, current_date, original_md_files, task_files, idx,
                 success_count, fail_count, md_files, result_folder, summary,
                 log, histVars>>

\* the child ends by itself before the timeout (lines 105-125, 131-135)
ChildExit(rc, decodable) ==
  /\ pc = "Running"
  /\ alive' = alive \ {task_files[idx]}
  /\ cwd' = original_dir
  /\ original_dir' = "none"
  /\ result' = OutcomeOf(rc, decodable)
  /\ line' = PrintedLine(OutcomeOf(rc, decodable))
  /\ pc' = "Returning"
  /\ UNCHANGED <<sessVars, roleVars, scen, fsVars, current_date, original_md_files, task_files, idx,
                 success_count, fail_count, md_files, result_folder, summary,
                 log, histVars>>

\* variant: the child is not killed when the timeout fires
ChildTimeoutNoKill ==
  /\ pc = "Running"
  /\ alive' = alive
  /\ cwd' = original_dir
  /\ original_dir' = "none"
  /\ result' = "timeout"
  /\ line' = PrintedLine("timeout")
  /\ pc' = "Returning"
  /\ UNCHANGED <<sessVars, roleVars, scen, fsVars, current_date, original_md_files, task_files, idx,
                 success_count, fail_count, md_files, result_folder, summary,
                 log, histVars>>

\* the timeout fires: subprocess.run kills the child, waits for it and raises
\* TimeoutExpired (handler of lines 127-130)
ChildTimeout ==
  /\ pc = "Running"
  /\ alive' = alive \ {task_files[idx]}
  /\ cwd' = original_dir
  /\ original_dir' = "none"
  /\ result' = "timeout"
  /\ line' = PrintedLine("timeout")
  /\ pc' = "Returning"
  /\ UNCHANGED <<sessVars, roleVars, scen, fsVars, current_date, original_md_files, task_files, idx,
                 success_count, fail_count, md_files, result_folder, summary,
                 log, histVars>>

\* variant: a failed task is not counted
RunCountDropsFailure(ok) ==
  /\ success_count' = IF ok THEN success_count + 1 ELSE success_count
  /\ fail_count' = fail_count

\* run, lines 206-209: one of the two counters is incremented
RunCount(ok) ==
  /\ success_count' = IF ok THEN success_count + 1 ELSE success_count
  /\ fail_count' = IF ok THEN fail_count ELSE fail_count + 1

\* variant: a failed task is run again
FinishUnitRetry ==
  /\ pc = "Returning"
  /\ RunCount(execute_task_returns(result))
  /\ idx' = IF execute_task_returns(result) THEN idx + 1 ELSE idx
  /\ result' = "none"
  /\ line' = "none"
  /\ scen' = ScenAfter(scen, result)
  /\ pc' = "Executing"
  /\ UNCHANGED <<sessVars, roleVars, original_dir, fsVars, current_date, original_md_files, task_files, cwd,
                 alive, md_files, result_folder, summary, log, histVars>>

\* execute_task returns its boolean, run counts it and goes to the next file
FinishUnit ==
  /\ pc = "Returning"
  /\ RunCount(execute_task_returns(result))
  /\ idx' = idx + 1
  /\ result' = "none"
  /\ line' = "none"
  /\ scen' = ScenAfter(scen, result)
  /\ pc' = "Executing"
  /\ UNCHANGED <<sessVars, roleVars, original_dir, fsVars, current_date, original_md_files, task_files, cwd,
                 alive, md_files, result_folder, summary, log, histVars>>

\* ---- find_generated_md_files, move_md_files ------------------------------
\* variant: the snapshot is not subtracted
AllCurrentMd == GlobMd(srcMd)

\* lines 145-150: current .md files minus the snapshot
find_generated_md_files == GlobMd(srcMd) \ original_md_files

\* variant: the new files are collected after each task file, not after the last
StartMoveInLoop ==
  /\ pc = "Executing"
  /\ idx > 1
  /\ IF find_generated_md_files = {}
       THEN /\ md_files' = <<>>
            /\ log' = log \cup {"no_new_md"}
            /\ pc' = "Reporting"
       ELSE /\ md_files' \in Orderings(find_generated_md_files)
            /\ log' = log
            /\ pc' = "Moving"
  /\ UNCHANGED <<sessVars, roleVars, original_dir, line, scen, fsVars, current_date, original_md_files, task_files, idx,
                 success_count, fail_count, cwd, alive, result_folder,
                 summary, result, histVars>>

\* move_md_files up to the for loop (lines 159-165)
StartMove ==
  /\ pc = "Executing"
  /\ idx > Len(task_files)
  /\ IF find_generated_md_files = {}
       THEN /\ md_files' = <<>>
            /\ log' = log \cup {"no_new_md"}
            /\ pc' = "Reporting"
       ELSE /\ md_files' \in Orderings(find_generated_md_files)
            /\ log' = log
            /\ pc' = "Moving"
  /\ UNCHANGED <<sessVars, roleVars, original_dir, line, scen, fsVars, current_date, original_md_files, task_files, idx,
                 success_count, fail_count, cwd, alive, result_folder,
                 summary, result, histVars>>

\* variant: no collision test, the file keeps its name
TargetNameOverwrite(n, t) == n

\* lines 168-175: the name the file is stored under at time of day t
TargetName(n, t) ==
  IF dest[result_folder][n] /= Absent THEN Append(n, t) ELSE n

\* one iteration of the for loop: shutil.move of the next new file, which
\* replaces a file that has the target name
MoveOne(t) ==
  /\ pc = "Moving"
  /\ md_files /= <<>>
  /\ LET n == Head(md_files)
         target == TargetName(n, t)
     IN /\ dest' = [dest EXCEPT ![result_folder][target] = srcMd[n]]
        /\ srcMd' = [srcMd EXCEPT ![n] = Absent]
        /\ relocated' = relocated \cup {<<n, target>>}
  /\ md_files' = Tail(md_files)
  /\ pc' = IF Tail(md_files) = <<>> THEN "Reporting" ELSE "Moving"
  /\ UNCHANGED <<sessVars, roleVars, original_dir, line, scen, tasksDirExists, srcPy, resultDirExists, dateDirs,
                 current_date, original_md_files, task_files, idx,
                 success_count, fail_count, cwd, alive, result_folder,
                 summary, log, result, attempts>>

\* shutil.move raises (line 177 has no handler, nor has run at line 212)
MoveFault ==
  /\ pc = "Moving"
  /\ md_files /= <<>>
  /\ log' = log \cup {"exception"}
  /\ pc' = "Raised"
  /\ UNCHANGED <<sessVars, roleVars, original_dir, line, scen, fsVars, current_date, original_md_files, task_files, idx,
                 success_count, fail_count, cwd, alive, md_files,
                 result_folder, summary, result, histVars>>

\* run, lines 215-222: the statistics
Report ==
  /\ pc = "Reporting"
  /\ summary' = [reported |-> TRUE, total |-> Len(task_files),
                 succeeded |-> success_count, failed |-> fail_count,
                 destination |-> result_folder]
  /\ log' = log \cup {"statistics"}
  /\ pc' = "Done"
  /\ UNCHANGED <<sessVars, roleVars, original_dir, line, scen, fsVars, current_date, original_md_files, task_files, idx,
                 success_count, fail_count, cwd, alive, md_files,
                 result_folder, result, histVars>>

Next ==
  \/ get_task_files
  \/ ReturnNoTasks
  \/ create_result_folder
  \/ Launch
  \/ LaunchFault
  \/ \E n \in WriteNames : ChildWrite(n)
  \/ ChildWritePy
  \/ \E rc \in {0, 1}, decodable \in BOOLEAN : ChildExit(rc, decodable)
  \/ ChildTimeout
  \/ FinishUnit
  \/ StartMove
  \/ \E t \in Times : MoveOne(t)
  \/ MoveFault
  \/ Report

Spec == Init /\ [][Next]_vars

\* ==== properties ==========================================================
Discovered(i) == i \in 1..Len(task_files)
LoopOver == pc \in {"Moving", "Reporting", "Done", "Raised"}
Failures == {"exit_nonzero", "exit_nonzero_bad_output", "timeout", "launch_error"}

\* C1: when run reports its statistics after discovering N >= 1 task files,
\* the total is N and succeeded + failed is N, whatever each child did.
C1_SummaryTotals ==
  summary.reported =>
    /\ Len(task_files) >= 1
    /\ summary.total = Len(task_files)
    /\ summary.succeeded + summary.failed = Len(task_files)

C1_Witness ==
  /\ pc = "Done"
  /\ summary.reported
  /\ summary.total = 2
  /\ summary.succeeded = 1
  /\ summary.failed = 1

\* C2: every executed task file is counted in exactly one of the two
\* counters: in succeeded when its child exited with code 0 before the
\* timeout, in failed when it exited non-zero, timed out or could not be
\* launched.
C2_CountedByOutcome ==
  [][pc = "Returning" =>
       IF result \in {"exit0", "exit0_bad_output"}
         THEN success_count' = success_count + 1 /\ fail_count' = fail_count
         ELSE success_count' = success_count /\ fail_count' = fail_count + 1]_vars

\* C3: a .md file of the snapshot taken at discovery is never among the new
\* files, is never moved and stays in tasks/, also when a task rewrote it;
\* every file that is moved was absent from the snapshot.
C3_BaselineUntouched ==
  /\ \A n \in original_md_files :
        /\ pc \notin {"Idle", "Discovered"} => n \notin find_generated_md_files
        /\ \A k \in 1..Len(md_files) : md_files[k] /= n
        /\ srcMd[n] /= Absent
  /\ \A m \in relocated : m[1] \notin original_md_files

C3_Witness ==
  /\ pc = "Done"
  /\ relocated /= {}
  /\ \E n \in original_md_files : srcMd[n] = Fresh

\* C4: when a new file is moved and the result folder already holds a file
\* of the same name, the new file is stored under the name with a time
\* suffix and the file of the same name in the result folder is unchanged.
C4_CollisionRenames ==
  [][(pc = "Moving" /\ md_files' /= md_files
        /\ dest[result_folder][Head(md_files)] /= Absent)
      => /\ dest'[result_folder][Head(md_files)] = dest[result_folder][Head(md_files)]
         /\ \E t \in Times :
              /\ dest'[result_folder][Append(Head(md_files), t)] = srcMd[Head(md_files)]
              /\ <<Head(md_files), Append(Head(md_files), t)>> \in relocated'
         /\ srcMd'[Head(md_files)] = Absent]_vars

C4_Witness ==
  \E m \in relocated :
    /\ m[2] /= m[1]
    /\ dest[current_date][m[1]] = Old
    /\ dest[current_date][m[2]] = Fresh

\* C5 as stated: a missing tasks/ makes discovery fail with an error that
\* aborts the run, unlike an existing tasks/ without task files.
C5_MissingDirRaises ==
  (pc /= "Idle" /\ ~tasksDirExists) => pc = "Raised"

\* C5 amended: with tasks/ missing, get_task_files raises nothing: it prints
\* an error line and returns the empty list, the value it also returns for an
\* existing tasks/ without task files; in both cases run returns early with
\* nothing executed and no statistics, and only the printed lines differ.
C5_MissingDirReturnsEmpty ==
  /\ (pc /= "Idle" /\ ~tasksDirExists) =>
        /\ task_files = <<>>
        /\ "tasks_dir_missing" \in log
        /\ pc \in {"Discovered", "Done"}
        /\ ~summary.reported
        /\ \A u \in Units : attempts[u] = 0
  /\ (pc /= "Idle" /\ tasksDirExists /\ srcPy \ {InitPy} = {}) =>
        /\ task_files = <<>>
        /\ "tasks_dir_missing" \notin log
        /\ pc \in {"Discovered", "Done"}
        /\ ~summary.reported
        /\ \A u \in Units : attempts[u] = 0

C5_Witness ==
  /\ pc = "Done"
  /\ ~tasksDirExists
  /\ task_files = <<>>
  /\ "tasks_dir_missing" \in log

\* C6 as stated: with no task file the run ends reporting {0, 0, 0}.
C6_EmptyRunReportsZeros ==
  (pc = "Done" /\ task_files = <<>>) =>
    /\ summary.reported
    /\ summary.total = 0
    /\ summary.succeeded = 0
    /\ summary.failed = 0

\* C6 amended: with no task file run returns right after discovery and
\* reports no statistics at all; no child is executed, no file is collected
\* or moved, and neither result/ nor the dated folder is created.
C6_EmptyRunNoSummary ==
  /\ []((pc /= "Idle" /\ task_files = <<>>) =>
          /\ pc \in {"Discovered", "Done"}
          /\ ~summary.reported
          /\ \A u \in Units : attempts[u] = 0
          /\ alive = {}
          /\ relocated = {}
          /\ result_folder = 0)
  /\ [][(pc /= "Idle" /\ task_files = <<>>) =>
          UNCHANGED <<resultDirExists, dateDirs, dest, srcMd>>]_vars

C6_Witness ==
  /\ pc = "Done"
  /\ tasksDirExists
  /\ srcPy = {InitPy}
  /\ task_files = <<>>
  /\ ~resultDirExists
  /\ "no_tasks_exit" \in log

\* C7 (runs that discovered at least one task file): the run ends in Done
\* with its statistics reported, whatever the children did and whatever
\* happens while the new files are moved.
C7_RunEndsReported ==
  (pc \in {"Done", "Raised"} /\ task_files /= <<>>) =>
    (pc = "Done" /\ summary.reported)

\* C8: a task that exits non-zero, times out or cannot be launched does not
\* abort the run: its failure is followed by the next task file, and when
\* the loop is over every discovered task file has been executed.
C8_FailureDoesNotAbort ==
  /\ \A i \in 1..MaxUnits :
        (Discovered(i) /\ (i < idx \/ LoopOver)) => attempts[task_files[i]] >= 1
  /\ pc = "Raised" => idx > Len(task_files)
  /\ result \in Failures => pc = "Returning"
  /\ (pc = "Executing" /\ idx <= Len(task_files)) => ENABLED Launch

C8_Witness ==
  /\ pc = "Returning"
  /\ idx = 2
  /\ fail_count = 1
  /\ attempts[task_files[2]] = 1
  /\ result = "exit0"

\* C9: no retry: each discovered task file is launched at most once,
\* whatever its child did.
C9_NoRetry ==
  /\ \A u \in Units : attempts[u] <= 1
  /\ \A i \in 1..MaxUnits :
       Discovered(i) => attempts[task_files[i]] =
                          (IF i < idx \/ (i = idx /\ pc \in {"Running", "Returning"})
                             THEN 1 ELSE 0)

C9_Witness ==
  /\ pc = "Done"
  /\ summary.failed = 2
  /\ \A i \in 1..2 : attempts[task_files[i]] = 1

\* C10: the task files run one after the other in the discovered order: at
\* most one child is alive, it is the child of the current file, and a file
\* is started only when the children of all earlier files are gone.
C10_Sequential ==
  /\ Cardinality(alive) <= 1
  /\ pc = "Running" => alive = {task_files[idx]}
  /\ pc /= "Running" => alive = {}
  /\ \A i, j \in 1..MaxUnits :
       (Discovered(i) /\ Discovered(j) /\ i < j /\ attempts[task_files[j]] >= 1)
         => /\ attempts[task_files[i]] >= 1
            /\ i < idx
            /\ task_files[i] \notin alive

C10_Witness ==
  /\ pc = "Running"
  /\ idx = 2
  /\ fail_count = 1
  /\ alive = {task_files[2]}

Range(f) == {f[i] : i \in DOMAIN f}

\* C11: run goes through its phases in the order discovery, execution of
\* the task files 1..N, collection, statistics: the tasks directory is
\* scanned again and files are moved only when the last discovered task file
\* has been executed and counted, and the statistics are printed only when
\* the collection is over.
C11_PhaseOrder ==
  /\ pc \in {"Idle", "Discovered"} =>
        /\ \A u \in Units : attempts[u] = 0
        /\ relocated = {} /\ md_files = <<>> /\ ~summary.reported
        /\ result_folder = 0
  /\ pc \in {"Executing", "Running", "Returning"} =>
        /\ task_files /= <<>> /\ result_folder /= 0
        /\ idx \in 1..(Len(task_files) + 1)
        /\ relocated = {} /\ md_files = <<>> /\ ~summary.reported
  /\ (pc \in {"Moving", "Reporting"} \/ relocated /= {} \/ md_files /= <<>>
        \/ summary.reported) =>
        /\ idx = Len(task_files) + 1
        /\ \A i \in 1..MaxUnits : Discovered(i) => attempts[task_files[i]] = 1
        /\ success_count + fail_count = Len(task_files)
        /\ alive = {} /\ result = "none"
  /\ pc = "Moving" => (md_files /= <<>> /\ ~summary.reported)
  /\ pc = "Reporting" => (md_files = <<>> /\ ~summary.reported)
  /\ summary.reported => (pc = "Done" /\ md_files = <<>>)

C11_Witness ==
  /\ pc = "Done"
  /\ summary.reported
  /\ Len(task_files) = 2
  /\ Cardinality(relocated) = 2

\* C12 as stated: what is recorded for a failed task file tells a timeout
\* and a launch error from a plain non-zero exit.
C12_ReasonRecorded ==
  (pc = "Returning" /\ result \in {"timeout", "launch_error"}) =>
    execute_task_returns(result) /= execute_task_returns("exit_nonzero")

\* C12 amended: execute_task records nothing but a boolean, False for every
\* failure, and run only counts it; the reason is in the printed line alone:
\* a timeout prints the timeout line, a non-zero exit the failure line, and a
\* task that could not be launched the line of the general exception
\* handler, which any other exception (such as undecodable output) prints too.
C12_ReasonOnlyPrinted ==
  /\ pc = "Returning" =>
        /\ result \in Failures \cup {"exit0_bad_output"} => ~execute_task_returns(result)
        /\ result = "timeout" <=> line = "timeout"
        /\ result = "exit_nonzero" <=> line = "failed"
        /\ result = "exit0" <=> line = "success"
        /\ result \in {"launch_error", "exit0_bad_output", "exit_nonzero_bad_output"}
             <=> line = "exception"
  /\ pc /= "Returning" => line = "none"

C12_Witness ==
  /\ pc = "Returning"
  /\ result = "timeout"
  /\ line = "timeout"
  /\ fail_count = 1

\* C13: every file a run moves is put into the one folder of result/ that is
\* named by the date of the run, which is created if absent; the folders of
\* the other dates are neither created nor written.
C13_DatedFolder ==
  /\ result_folder /= 0 =>
        /\ result_folder = current_date
        /\ resultDirExists
        /\ current_date \in dateDirs
  /\ relocated /= {} => result_folder = current_date
  /\ \A m \in relocated : dest[current_date][m[2]] = Fresh
  /\ \A d \in Dates \ {current_date} : d \notin dateDirs /\ dest[d] = EmptyFolder

C13_Witness ==
  /\ pc = "Done"
  /\ relocated /= {}
  /\ current_date = 2
  /\ dateDirs = {2}
  /\ dest[1] = EmptyFolder
  /\ dest[2] /= EmptyFolder

\* C14: in the scenario of unit a (exits 0, writes r.md) and unit b (exits 1)
\* with no r.md in the snapshot, the run reports total 2, succeeded 1,
\* failed 1 and has moved exactly one file, r.md, stored as r.md or under the
\* name with a time suffix.
C14_Scenario ==
  (pc = "Done" /\ scen = "ab" /\ Len(task_files) = 2) =>
    /\ summary.reported
    /\ summary.total = 2
    /\ summary.succeeded = 1
    /\ summary.failed = 1
    /\ Cardinality(relocated) = 1
    /\ \A m \in relocated :
         /\ m[1] = <<>>
         /\ m[2] = <<>> \/ \E t \in Times : m[2] = <<t>>
         /\ dest[current_date][m[2]] = Fresh

\* C15: discovery returns exactly the .py files of tasks/ other than
\* __init__.py; the list is fixed from then on: a task file that appears in
\* tasks/ during the run is not executed, and each file of the list is
\* executed once.
C15_UnitsFixedAtDiscovery ==
  /\ [](/\ pc = "Discovered" =>
             /\ tasksDirExists => Range(task_files) = srcPy \ {InitPy}
             /\ Len(task_files) = Cardinality(Range(task_files))
        /\ Range(task_files) \subseteq srcPy \ {InitPy}
        /\ \A u \in Units : attempts[u] >= 1 => u \in Range(task_files)
        /\ \A u \in Units : attempts[u] <= 1
        /\ LoopOver => \A u \in Range(task_files) : attempts[u] = 1)
  /\ [][pc /= "Idle" => task_files' = task_files]_vars

C15_Witness ==
  /\ pc = "Done"
  /\ summary.reported
  /\ Len(task_files) = 1
  /\ srcPy \ {InitPy} = {1, 2}
  /\ attempts[1] = 1
  /\ attempts[2] = 0

\* C20: collection loses no file: each move of a new file adds one file to
\* the result folder and leaves every file that was in it as it was, also
\* when the name with the time suffix is the name of a file of the folder.
C20_MoveLosesNoFile ==
  [][(pc = "Moving" /\ md_files' /= md_files) =>
       /\ Cardinality(GlobMd(dest'[result_folder])) =
            Cardinality(GlobMd(dest[result_folder])) + 1
       /\ \A n \in AllNames :
            dest[result_folder][n] /= Absent =>
              dest'[result_folder][n] = dest[result_folder][n]]_vars

\* C21: execute_task leaves the working directory of the scheduler as it
\* was: whatever the child did (exit 0, non-zero exit, timeout) and when the
\* launch raised, the working directory is back to what it was before the
\* call when execute_task returns, so that the child of every task file
\* runs with tasks/ as its working directory.
C21_CwdRestored ==
  /\ [](/\ pc = "Running" => (cwd = "tasks" /\ original_dir = "orig")
        /\ alive /= {} => cwd = "tasks"
        /\ pc /= "Running" => (cwd = "orig" /\ original_dir = "none"))
  /\ [][pc' = "Returning" =>
          cwd' = (IF pc = "Running" THEN original_dir ELSE cwd)]_vars

C21_Witness ==
  /\ pc = "Running"
  /\ idx = 2
  /\ alive = {task_files[2]}
  /\ cwd = "tasks"
  /\ success_count + fail_count = 1

\* ==== webAgent/chat.py: SessionManager ===================================
\* ---- bounds --------------------------------------------------------------
NumSess    == 2    \* session ids
NumClients == 2    \* distinct requests (User-Agent, address, cookie)
MaxTemp    == 1    \* calls made outside a request may hold a mapping
MaxMsgs    == 2    \* messages of one session

SessIds   == 1..NumSess
NoneId    == 0                    \* session_id=None
Requests  == 1..NumClients
NoRequest == 0                    \* no request context: flask.request raises

\* messages: the class name and the content
Human      == [type |-> "HumanMessage", content |-> "user"]
Reply      == [type |-> "AIMessage", content |-> "reply"]
ErrorReply == [type |-> "AIMessage", content |-> "error"]
Foreign    == [type |-> "ToolMessage", content |-> "other"]
KnownTypes == {"HumanMessage", "AIMessage", "SystemMessage"}

\* contents a session file can have when the manager is constructed
StoredFiles == {<<Human, Reply>>, <<Foreign>>}

\* dict[k] = v and del dict[k] for k in K
Put(f, k, v) == [x \in DOMAIN f \cup {k} |-> IF x = k THEN v ELSE f[x]]
Drop(f, K)   == [x \in DOMAIN f \ K |-> f[x]]

Known(m) == m.type \in KnownTypes

\* _load_session: [] for a missing file, messages of other types are skipped
load_session(files, session_id) ==
  IF session_id \notin DOMAIN files
    THEN <<>>
    ELSE SelectSeq(files[session_id], Known)

\* _save_session: the file is rewritten with the type and content of each message
save_session(files, session_id, messages) ==
  Put(files, session_id,
      [i \in 1..Len(messages) |->
         [type |-> messages[i].type, content |-> messages[i].content]])

\* _get_client_identifier: the md5 of the request's features, or a name
\* built from the clock when there is no request
TempIds == {<<"temp", n>> : n \in 1..MaxTemp}
FreeTemp == TempIds \ DOMAIN client_session_map
get_client_identifier(r) ==
  IF r = NoRequest
    THEN CHOOSE t \in FreeTemp : \A u \in FreeTemp : t[2] <= u[2]
    ELSE <<"md5", r>>

\* the session ids of which the state holds no trace; the id create_session
\* builds from the clock is one of them
FreshIds == {i \in SessIds : /\ i \notin DOMAIN active_sessions
                             /\ i \notin DOMAIN session_dir}
GeneratedId == IF FreshIds = {} THEN NoneId
               ELSE CHOOSE i \in FreshIds : \A j \in FreshIds : i <= j

\* the three dictionaries as one value
Store == [active |-> active_sessions, map |-> client_session_map,
          files |-> session_dir]

\* variant: the client is mapped, the session is not put into active_sessions
CreateNewMappedOnly(st, client_id, session_id) ==
  LET new_id == IF session_id = NoneId THEN GeneratedId ELSE session_id
  IN [active |-> st.active,
      map    |-> Put(st.map, client_id, new_id),
      files  |-> save_session(st.files, new_id, <<>>),
      id     |-> new_id]

\* create_session (lines 176-236) on a store; id is the value returned
CreateNew(st, client_id, session_id) ==
  LET new_id == IF session_id = NoneId THEN GeneratedId ELSE session_id
  IN [active |-> Put(st.active, new_id, <<>>),
      map    |-> Put(st.map, client_id, new_id),
      files  |-> save_session(st.files, new_id, <<>>),
      id     |-> new_id]

\* variant: the client's mapping is not looked up
CreateSessionOnAlways(st, client_id, session_id) ==
  CreateNew(st, client_id, session_id)

CreateSessionOn(st, client_id, session_id) ==
  IF client_id \in DOMAIN st.map
    THEN LET existing_session_id == st.map[client_id]
         IN IF existing_session_id \notin DOMAIN st.active
              THEN LET session_data == load_session(st.files, existing_session_id)
                   IN IF session_data /= <<>>
                        THEN [active |-> Put(st.active, existing_session_id, session_data),
                              map    |-> st.map,
                              files  |-> st.files,
                              id     |-> existing_session_id]
                        ELSE CreateNew(st, client_id, session_id)
              ELSE [active |-> st.active, map |-> st.map, files |-> st.files,
                    id |-> existing_session_id]
    ELSE CreateNew(st, client_id, session_id)

\* the call needs an id built from the clock
NeedsGenerated(st, client_id, session_id) ==
  /\ session_id = NoneId
  /\ \/ client_id \notin DOMAIN st.map
     \/ /\ st.map[client_id] \notin DOMAIN st.active
        /\ load_session(st.files, st.map[client_id]) = <<>>

create_session(r, session_id) ==
  /\ ret.op = "none"
  /\ r = NoRequest => FreeTemp /= {}
  /\ LET client_id == get_client_identifier(r)
     IN /\ NeedsGenerated(Store, client_id, session_id) => FreshIds /= {}
        /\ LET st == CreateSessionOn(Store, client_id, session_id)
           IN /\ active_sessions' = st.active
              /\ client_session_map' = st.map
              /\ session_dir' = st.files
              /\ ret' = [op |-> "create_session", client |-> client_id,
                         session_id |-> session_id, id |-> st.id,
                         out |-> "id", llm |-> FALSE]
  /\ UNCHANGED <<schedVars, roleVars>>

\* send_message, lines 250-262: the session is looked up, loaded or created
Lookup(st, r, session_id) ==
  IF session_id \in DOMAIN st.active
    THEN st
    ELSE LET session_data == load_session(st.files, session_id)
         IN IF session_data /= <<>>
              THEN [active |-> Put(st.active, session_id, session_data),
                    map |-> st.map, files |-> st.files]
              ELSE LET c == CreateSessionOn(st, get_client_identifier(r), session_id)
                   IN [active |-> c.active, map |-> c.map, files |-> c.files]

\* send_message calls create_session
CallsCreate(st, session_id) ==
  /\ session_id \notin DOMAIN st.active
  /\ load_session(st.files, session_id) = <<>>

\* send_message (lines 238-290) with the graph of lines 116-154; llm_ok tells
\* whether self.llm.invoke returns a reply or raises
send_message(r, session_id, llm_ok) ==
  /\ ret.op = "none"
  /\ (r = NoRequest /\ CallsCreate(Store, session_id)) => FreeTemp /= {}
  /\ LET st == Lookup(Store, r, session_id)
         client_id == IF CallsCreate(Store, session_id)
                        THEN get_client_identifier(r) ELSE <<>>
     IN IF session_id \notin DOMAIN st.active
          THEN \* line 265 raises KeyError, caught at line 288
               /\ active_sessions' = st.active
               /\ client_session_map' = st.map
               /\ session_dir' = st.files
               /\ ret' = [op |-> "send_message", client |-> client_id,
                          session_id |-> session_id, id |-> 0,
                          out |-> "exception", llm |-> llm_ok]
          ELSE LET messages == Append(st.active[session_id], Human)
               IN /\ Len(messages) < MaxMsgs
                  /\ client_session_map' = st.map
                  /\ IF llm_ok
                       THEN /\ active_sessions' =
                                 Put(st.active, session_id, Append(messages, Reply))
                            /\ session_dir' =
                                 save_session(st.files, session_id, Append(messages, Reply))
                       ELSE /\ active_sessions' =
                                 Put(st.active, session_id, Append(messages, ErrorReply))
                            /\ session_dir' = st.files
                  /\ ret' = [op |-> "send_message", client |-> client_id,
                             session_id |-> session_id, id |-> 0,
                             out |-> IF llm_ok THEN "reply" ELSE "error",
                             llm |-> llm_ok]
  /\ UNCHANGED <<schedVars, roleVars>>

\* get_history (lines 292-311)
get_history(session_id) ==
  IF session_id \in DOMAIN active_sessions
    THEN active_sessions[session_id]
    ELSE load_session(session_dir, session_id)

\* list_sessions (lines 396-418), as a set
list_sessions == DOMAIN active_sessions \cup DOMAIN session_dir

\* variant: the mappings of the clients are left as they are
MapAfterDeleteKept(session_id) == client_session_map

\* delete_session, lines 435-444
MapAfterDelete(session_id) ==
  Drop(client_session_map,
       {c \in DOMAIN client_session_map : client_session_map[c] = session_id})

\* delete_session (lines 420-455); remove_ok tells whether os.remove succeeds
delete_session(session_id, remove_ok) ==
  /\ ret.op = "none"
  /\ ~remove_ok => session_id \in DOMAIN session_dir
  /\ active_sessions' = Drop(active_sessions, {session_id})
  /\ client_session_map' = MapAfterDelete(session_id)
  /\ session_dir' = IF remove_ok THEN Drop(session_dir, {session_id})
                    ELSE session_dir
  /\ ret' = [op |-> "delete_session", client |-> <<>>,
             session_id |-> session_id, id |-> 0,
             out |-> IF remove_ok THEN "True" ELSE "False", llm |-> FALSE]
  /\ UNCHANGED <<schedVars, roleVars>>

\* the caller takes the returned value
Return ==
  /\ ret.op /= "none"
  /\ ret' = NoRet
  /\ UNCHANGED <<active_sessions, client_session_map, session_dir,
                 schedVars, roleVars>>

\* no TaskScheduler runs
NoScheduler ==
  /\ tasksDirExists = FALSE
  /\ srcPy = {}
  /\ srcMd = EmptyFolder
  /\ resultDirExists = FALSE
  /\ dateDirs = {}
  /\ dest = [d \in Dates |-> EmptyFolder]
  /\ current_date = 1
  /\ original_md_files = {}
  /\ task_files = <<>>
  /\ idx = 0
  /\ success_count = 0
  /\ fail_count = 0
  /\ cwd = "orig"
  /\ original_dir = "none"
  /\ alive = {}
  /\ md_files = <<>>
  /\ result_folder = 0
  /\ summary = NoSummary
  /\ log = {}
  /\ pc = "Idle"
  /\ result = "none"
  /\ line = "none"
  /\ attempts = [u \in Units |-> 0]
  /\ relocated = {}
  /\ scen = "open"

\* SessionManager.__init__ (lines 28-51) on a session directory that may hold
\* files of earlier processes
SessInit ==
  /\ NoScheduler
  /\ NoPromptGenerator
  /\ active_sessions = [x \in {} |-> <<>>]
  /\ client_session_map = [x \in {} |-> 0]
  /\ \E S \in SUBSET SessIds : session_dir \in [S -> StoredFiles]
  /\ ret = NoRet

SessNext ==
  \/ \E r \in Requests \cup {NoRequest}, i \in SessIds \cup {NoneId} :
       create_session(r, i)
  \/ \E r \in Requests \cup {NoRequest}, i \in SessIds, llm_ok \in BOOLEAN :
       send_message(r, i, llm_ok)
  \/ \E i \in SessIds, remove_ok \in BOOLEAN : delete_session(i, remove_ok)
  \/ Return

SessSpec == SessInit /\ [][SessNext]_vars

\* ---- claims on SessionManager --------------------------------------------
\* C16: create_session reuses sessions per client: a call by a client
\* identifier that is mapped to a session returns that session id and
\* creates nothing (no session, no file, no mapping changes); a call by a
\* client identifier without mapping gets a newly created, empty session,
\* under the given id or under a new id, to which the client is then mapped.
C16_ReusePerClient ==
  [][ret'.op = "create_session" =>
       IF ret'.client \in DOMAIN client_session_map
         THEN /\ ret'.id = client_session_map[ret'.client]
              /\ UNCHANGED <<active_sessions, client_session_map, session_dir>>
         ELSE /\ ret'.session_id /= NoneId => ret'.id = ret'.session_id
              /\ ret'.session_id = NoneId => ret'.id \notin list_sessions
              /\ ret'.id \in DOMAIN active_sessions'
              /\ active_sessions'[ret'.id] = <<>>
              /\ session_dir'[ret'.id] = <<>>
              /\ client_session_map' =
                   Put(client_session_map, ret'.client, ret'.id)]_vars

C16_Witness ==
  /\ ret.op = "create_session"
  /\ ret.session_id /= NoneId
  /\ ret.id /= ret.session_id
  /\ client_session_map[ret.client] = ret.id
  /\ ret.session_id \notin DOMAIN active_sessions

\* C17: send_message with a session id that is not active and has no
\* messages on disk creates a session under that id, appends the user
\* message and returns the reply of the model (when the model replies),
\* whichever session the calling client is mapped to.
C17_UnknownIdCreates ==
  [][(/\ ret'.op = "send_message"
      /\ ret'.llm
      /\ CallsCreate(Store, ret'.session_id)) =>
       /\ ret'.out = "reply"
       /\ ret'.session_id \in DOMAIN active_sessions'
       /\ active_sessions'[ret'.session_id] = <<Human, Reply>>]_vars

\* C18: when delete_session(s) has returned True, s is not in
\* active_sessions, no client is mapped to s, the file of s does not exist,
\* list_sessions does not contain s and get_history(s) is the empty list;
\* the other sessions, their files and the mappings to them are as before.
C18_DeleteEffects ==
  /\ []((ret.op = "delete_session" /\ ret.out = "True") =>
          /\ ret.session_id \notin DOMAIN active_sessions
          /\ \A c \in DOMAIN client_session_map :
               client_session_map[c] /= ret.session_id
          /\ ret.session_id \notin DOMAIN session_dir
          /\ ret.session_id \notin list_sessions
          /\ get_history(ret.session_id) = <<>>)
  /\ [][(ret'.op = "delete_session" /\ ret'.out = "True") =>
          /\ DOMAIN active_sessions' \ {ret'.session_id} =
               DOMAIN active_sessions \ {ret'.session_id}
          /\ DOMAIN session_dir' \ {ret'.session_id} =
               DOMAIN session_dir \ {ret'.session_id}
          /\ \A t \in SessIds \ {ret'.session_id} :
               /\ t \in DOMAIN active_sessions =>
                    active_sessions'[t] = active_sessions[t]
               /\ t \in DOMAIN session_dir => session_dir'[t] = session_dir[t]
          /\ DOMAIN client_session_map' \subseteq DOMAIN client_session_map
          /\ \A c \in DOMAIN client_session_map :
               client_session_map[c] /= ret'.session_id =>
                 /\ c \in DOMAIN client_session_map'
                 /\ client_session_map'[c] = client_session_map[c]]_vars

C18_Witness ==
  /\ ret.op = "delete_session"
  /\ ret.out = "True"
  /\ \E t \in DOMAIN active_sessions :
       /\ t /= ret.session_id
       /\ active_sessions[t] = <<Human, Reply>>
       /\ \E c \in DOMAIN client_session_map : client_session_map[c] = t
  /\ Cardinality(DOMAIN client_session_map) = 1

\* C22: create_session never discards history: a call create_session(s)
\* naming a session that exists (active, or on disk with messages) leaves
\* the messages of s in memory and on disk as they were.
C22_CreateKeepsHistory ==
  [][(/\ ret'.op = "create_session"
      /\ ret'.session_id /= NoneId
      /\ \/ ret'.session_id \in DOMAIN active_sessions
         \/ load_session(session_dir, ret'.session_id) /= <<>>) =>
       /\ ret'.session_id \in DOMAIN active_sessions =>
            /\ ret'.session_id \in DOMAIN active_sessions'
            /\ active_sessions'[ret'.session_id] = active_sessions[ret'.session_id]
       /\ ret'.session_id \in DOMAIN session_dir =>
            /\ ret'.session_id \in DOMAIN session_dir'
            /\ session_dir'[ret'.session_id] = session_dir[ret'.session_id]]_vars

\* C23: when send_message(s, m) has returned with a reply of the model or
\* with the error reply of a model call that raised, the messages in the
\* file of s are those of active_sessions[s], and loading the file gives them.
C23_PersistedIsInMemory ==
  (ret.op = "send_message" /\ ret.out \in {"reply", "error"}) =>
    /\ ret.session_id \in DOMAIN active_sessions
    /\ ret.session_id \in DOMAIN session_dir
    /\ session_dir[ret.session_id] = active_sessions[ret.session_id]
    /\ load_session(session_dir, ret.session_id) = active_sessions[ret.session_id]

\* C24: every session id to which client_session_map maps a client is a key
\* of active_sessions, in every state reached by create_session,
\* send_message and delete_session calls.
C24_MappedIsActive ==
  \A c \in DOMAIN client_session_map :
    client_session_map[c] \in DOMAIN active_sessions

C24_Witness ==
  /\ ret.op = "delete_session"
  /\ ret.out = "False"
  /\ ret.session_id \notin DOMAIN active_sessions
  /\ ret.session_id \in DOMAIN session_dir
  /\ Cardinality(DOMAIN client_session_map) = 2
  /\ \A c \in DOMAIN client_session_map :
       /\ client_session_map[c] /= ret.session_id
       /\ active_sessions[client_session_map[c]] = <<Human, ErrorReply>>

\* ==== Skills/tasks/prompt_generator.py: identify_role ====================
\* A text is the sequence of its characters.
\* ---- bounds --------------------------------------------------------------
MaxLen == 3        \* characters of the content

\* the table of lines 22-63, in the order of the dictionary; a character
\* outside ASCII is written by its code point ("u7f8e"), a role by the
\* transcription of its name, a description by the name of its role
ROLE_KEYWORDS == <<
  \* 美股分析师: 美股 股票 投资 财报 证券 纳斯达克 标普 道琼斯 市值 股价
  \* 资深美股分析师，专注于美股市场的投资分析与研究
  [name |-> "meigu fenxishi",
   keywords |->
       <<<<"u7f8e", "u80a1">>,
         <<"u80a1", "u7968">>,
         <<"u6295", "u8d44">>,
         <<"u8d22", "u62a5">>,
         <<"u8bc1", "u5238">>,
         <<"u7eb3", "u65af", "u8fbe", "u514b">>,
         <<"u6807", "u666e">>,
         <<"u9053", "u743c", "u65af">>,
         <<"u5e02", "u503c">>,
         <<"u80a1", "u4ef7">>>>,
   description |-> "description of meigu fenxishi"],
  \* AI工程师: 人工智能 AI 机器学习 深度学习 神经网络 模型训练 算法
  \* 资深AI工程师，专注于人工智能算法研发与应用
  [name |-> "AI gongchengshi",
   keywords |->
       <<<<"u4eba", "u5de5", "u667a", "u80fd">>,
         <<"A", "I">>,
         <<"u673a", "u5668", "u5b66", "u4e60">>,
         <<"u6df1", "u5ea6", "u5b66", "u4e60">>,
         <<"u795e", "u7ecf", "u7f51", "u7edc">>,
         <<"u6a21", "u578b", "u8bad", "u7ec3">>,
         <<"u7b97", "u6cd5">>>>,
   description |-> "description of AI gongchengshi"],
  \* 数据分析师: 数据分析 数据挖掘 统计分析 数据可视化 报表 指标
  \* 资深数据分析师，擅长数据挖掘与商业智能分析
  [name |-> "shuju fenxishi",
   keywords |->
       <<<<"u6570", "u636e", "u5206", "u6790">>,
         <<"u6570", "u636e", "u6316", "u6398">>,
         <<"u7edf", "u8ba1", "u5206", "u6790">>,
         <<"u6570", "u636e", "u53ef", "u89c6", "u5316">>,
         <<"u62a5", "u8868">>,
         <<"u6307", "u6807">>>>,
   description |-> "description of shuju fenxishi"],
  \* 产品经理: 产品 用户需求 功能设计 产品规划 用户体验 迭代
  \* 资深产品经理，专注于产品规划与用户体验优化
  [name |-> "chanpin jingli",
   keywords |->
       <<<<"u4ea7", "u54c1">>,
         <<"u7528", "u6237", "u9700", "u6c42">>,
         <<"u529f", "u80fd", "u8bbe", "u8ba1">>,
         <<"u4ea7", "u54c1", "u89c4", "u5212">>,
         <<"u7528", "u6237", "u4f53", "u9a8c">>,
         <<"u8fed", "u4ee3">>>>,
   description |-> "description of chanpin jingli"],
  \* 技术架构师: 架构 系统设计 技术选型 微服务 分布式 高可用
  \* 资深技术架构师，专注于系统架构设计与技术决策
  [name |-> "jishu jiagoushi",
   keywords |->
       <<<<"u67b6", "u6784">>,
         <<"u7cfb", "u7edf", "u8bbe", "u8ba1">>,
         <<"u6280", "u672f", "u9009", "u578b">>,
         <<"u5fae", "u670d", "u52a1">>,
         <<"u5206", "u5e03", "u5f0f">>,
         <<"u9ad8", "u53ef", "u7528">>>>,
   description |-> "description of jishu jiagoushi"],
  \* 金融分析师: 金融 理财 基金 债券 期货 外汇 风险管理
  \* 资深金融分析师，专注于金融市场分析与风险管理
  [name |-> "jinrong fenxishi",
   keywords |->
       <<<<"u91d1", "u878d">>,
         <<"u7406", "u8d22">>,
         <<"u57fa", "u91d1">>,
         <<"u503a", "u5238">>,
         <<"u671f", "u8d27">>,
         <<"u5916", "u6c47">>,
         <<"u98ce", "u9669", "u7ba1", "u7406">>>>,
   description |-> "description of jinrong fenxishi"],
  \* 法律顾问: 法律 合规 法规 合同 知识产权 诉讼
  \* 资深法律顾问，专注于法律合规与风险防控
  [name |-> "falv guwen",
   keywords |->
       <<<<"u6cd5", "u5f8b">>,
         <<"u5408", "u89c4">>,
         <<"u6cd5", "u89c4">>,
         <<"u5408", "u540c">>,
         <<"u77e5", "u8bc6", "u4ea7", "u6743">>,
         <<"u8bc9", "u8bbc">>>>,
   description |-> "description of falv guwen"],
  \* 市场营销专家: 营销 推广 品牌 广告 市场 获客 转化
  \* 资深市场营销专家，专注于品牌建设与市场推广
  [name |-> "shichang yingxiao zhuanjia",
   keywords |->
       <<<<"u8425", "u9500">>,
         <<"u63a8", "u5e7f">>,
         <<"u54c1", "u724c">>,
         <<"u5e7f", "u544a">>,
         <<"u5e02", "u573a">>,
         <<"u83b7", "u5ba2">>,
         <<"u8f6c", "u5316">>>>,
   description |-> "description of shichang yingxiao zhuanjia"],
  \* 内容创作者: 内容 写作 文案 编辑 创作 文章 博客
  \* 资深内容创作者，擅长高质量内容创作与编辑
  [name |-> "neirong chuangzuozhe",
   keywords |->
       <<<<"u5185", "u5bb9">>,
         <<"u5199", "u4f5c">>,
         <<"u6587", "u6848">>,
         <<"u7f16", "u8f91">>,
         <<"u521b", "u4f5c">>,
         <<"u6587", "u7ae0">>,
         <<"u535a", "u5ba2">>>>,
   description |-> "description of neirong chuangzuozhe"],
  \* 项目经理: 项目 进度 资源 协调 交付 里程碑 风险
  \* 资深项目经理，专注于项目规划与执行管理
  [name |-> "xiangmu jingli",
   keywords |->
       <<<<"u9879", "u76ee">>,
         <<"u8fdb", "u5ea6">>,
         <<"u8d44", "u6e90">>,
         <<"u534f", "u8c03">>,
         <<"u4ea4", "u4ed8">>,
         <<"u91cc", "u7a0b", "u7891">>,
         <<"u98ce", "u9669">>>>,
   description |-> "description of xiangmu jingli"]>>

\* 专业分析师
DefaultRole == [name |-> "zhuanye fenxishi",
                description |-> "description of zhuanye fenxishi"]
Pending == [name |-> "pending", description |-> ""]

\* str.lower() on the characters of the texts
LowerChar(ch) ==
  CASE ch = "A" -> "a"
    [] ch = "I" -> "i"
    [] OTHER -> ch
Lower(text) == [i \in 1..Len(text) |-> LowerChar(text[i])]

\* " ".join(texts)
RECURSIVE Join(_)
Join(texts) ==
  IF texts = <<>> THEN <<>>
  ELSE IF Len(texts) = 1 THEN texts[1]
  ELSE texts[1] \o <<" ">> \o Join(Tail(texts))

\* len(re.findall(keyword, text)): the matches from position i on, found from
\* left to right, each search going on behind the last match
MatchAt(keyword, text, i) ==
  /\ i + Len(keyword) - 1 <= Len(text)
  /\ \A j \in 1..Len(keyword) : text[i + j - 1] = keyword[j]
RECURSIVE FindAll(_, _, _)
FindAll(keyword, text, i) ==
  IF i > Len(text) THEN 0
  ELSE IF MatchAt(keyword, text, i)
    THEN 1 + FindAll(keyword, text, i + Len(keyword))
    ELSE FindAll(keyword, text, i + 1)

\* lines 146-150: the score of a role is the sum over its keywords
RECURSIVE ScoreFrom(_, _, _)
ScoreFrom(keywords, text, n) ==
  IF n > Len(keywords) THEN 0
  ELSE FindAll(keywords[n], text, 1) + ScoreFrom(keywords, text, n + 1)
Score(r, text) == ScoreFrom(ROLE_KEYWORDS[r].keywords, text, 1)

\* lines 144-151: role_scores, in the order of the table
RECURSIVE ScoresFrom(_, _)
ScoresFrom(text, r) ==
  IF r > Len(ROLE_KEYWORDS) THEN <<>>
  ELSE <<Score(r, text)>> \o ScoresFrom(text, r + 1)
role_scores(text) == ScoresFrom(text, 1)

\* max(role_scores, key=role_scores.get): the first role with the highest score
BestRole(scores) ==
  CHOOSE r \in DOMAIN scores :
    /\ \A q \in DOMAIN scores : scores[q] <= scores[r]
    /\ \A q \in 1..(r - 1) : scores[q] < scores[r]

\* lines 153-160
PickRole(text) ==
  LET scores == role_scores(text)
      best_role == BestRole(scores)
  IN IF scores[best_role] > 0
       THEN [name |-> ROLE_KEYWORDS[best_role].name,
             description |-> ROLE_KEYWORDS[best_role].description]
       ELSE DefaultRole

\* the text of content and metadata, joined as lines 137-141 join it
Joined(c, m) ==
  c \o (IF "tags" \in DOMAIN m THEN <<" ">> \o Join(m.tags) ELSE <<>>)
    \o (IF "description" \in DOMAIN m THEN <<" ">> \o m.description ELSE <<>>)

\* lines 137-141
search_text(c, m) ==
  Lower(c)
    \o (IF "tags" \in DOMAIN m THEN <<" ">> \o Lower(Join(m.tags)) ELSE <<>>)
    \o (IF "description" \in DOMAIN m THEN <<" ">> \o Lower(m.description) ELSE <<>>)

\* ---- the inputs ----------------------------------------------------------
\* A, I and the characters of 风险管理
RoleChars == {"A", "I", "u98ce", "u9669", "u7ba1", "u7406"}
RECURSIVE TextsOfLen(_)
TextsOfLen(n) ==
  IF n = 0 THEN {<<>>}
  ELSE {Append(t, ch) : t \in TextsOfLen(n - 1), ch \in RoleChars}
Texts == UNION {TextsOfLen(n) : n \in 0..MaxLen}
Metadatas ==
  {[x \in {} |-> <<>>],
   [description |-> <<"u98ce", "u9669", "u7ba1", "u7406">>],
   [tags |-> <<<<"A", "I">>, <<"u7ba1", "u7406">>>>,
    description |-> <<"u98ce", "u9669">>]}

\* identify_role (lines 125-160)
identify_role ==
  /\ role = Pending
  /\ role' = PickRole(search_text(content, metadata))
  /\ UNCHANGED <<content, metadata, schedVars, sessVars>>

RoleInit ==
  /\ NoScheduler
  /\ NoSessionManager
  /\ content \in Texts
  /\ metadata \in Metadatas
  /\ role = Pending

RoleNext == identify_role

RoleSpec == RoleInit /\ [][RoleNext]_vars

\* ---- claim on identify_role ----------------------------------------------
RoleNames == {ROLE_KEYWORDS[r].name : r \in 1..Len(ROLE_KEYWORDS)}

\* C19: identify_role returns the role of ROLE_KEYWORDS with the highest
\* total count of occurrences of its keywords in the input text (the first
\* such role in table order on a tie) with that role's description, and the
\* default role exactly when no keyword of any role occurs in the input
\* text; the result is one of the roles of the table or the default.
C19_RoleByKeywordCount ==
  role /= Pending =>
    LET occurrences == role_scores(Joined(content, metadata))
        Roles == DOMAIN occurrences
    IN /\ role.name \in RoleNames \cup {DefaultRole.name}
       /\ role = DefaultRole <=> \A r \in Roles : occurrences[r] = 0
       /\ role /= DefaultRole =>
            \E r \in Roles :
              /\ role.name = ROLE_KEYWORDS[r].name
              /\ role.description = ROLE_KEYWORDS[r].description
              /\ \A q \in Roles : occurrences[q] <= occurrences[r]
              /\ \A q \in 1..(r - 1) : occurrences[q] < occurrences[r]

====
